---- MODULE Spec2Model ----
\* LinkSnap URL shortener (src/server.js): the short-code allocation handler
\* POST /api/shorten, the cache-aside redirect handler GET /:shortCode with its
\* detached click recording, and the shorten rate limiter.  Every awaited
\* store or cache call is one atomic step of the store or of the cache; the
\* synchronous code that follows the await up to the next await (or to the
\* response) belongs to the same step.
EXTENDS Integers, Sequences, FiniteSets, Bags, TLC

\* ------------------------------------------------------------------ bounds

\* Request slots of the mixed workload (requests in flight or answered).
MaxProcs == 3
\* Request slots of the burst workload of the rate limiter (recycled).
RateProcs == 1
\* Requests beyond the ceiling that the burst workload still sends.
RateOver == 2
\* Requests the second rate-limit key sends in the burst workload.
RateOtherCap == 1
\* Resolution of the modelled Math.random() values: n / RandDen.
RandDen == 1000
\* The requests that arrive in the retry workload.
RetryArrivals == 4

Procs == 1..MaxProcs

\* --------------------------------------------------------------- constants

\* shortenUrlLimiter: max (requests per window and key).
RateMax == 100
\* shortenUrlLimiter: windowMs.
WindowMs == 15 * 60 * 1000
\* setCachedUrl: setex TTL, in seconds, and in milliseconds.
CacheTtlSec == 3600
\* expiresIn is in days: expiresIn * 24 * 60 * 60 * 1000.
DayMs == 24 * 60 * 60 * 1000
\* generateShortCode: for (let i = 0; i < 7; i++).
CodeLength == 7
\* urls.short_code VARCHAR(20), urls.custom_alias VARCHAR(50).
ShortCodeMax == 20
CustomAliasMax == 50

\* ----------------------------------------------------------------- strings
\* A string is a sequence of one-character strings.

chars == <<"A","B","C","D","E","F","G","H","I","J","K","L","M",
           "N","O","P","Q","R","S","T","U","V","W","X","Y","Z",
           "a","b","c","d","e","f","g","h","i","j","k","l","m",
           "n","o","p","q","r","s","t","u","v","w","x","y","z",
           "0","1","2","3","4","5","6","7","8","9">>

\* String.prototype.charAt: '' outside the string.
charAt(s, idx) == IF idx >= 0 /\ idx < Len(s) THEN <<s[idx + 1]>> ELSE <<>>

\* A mutant of FloorMul: Math.round in place of Math.floor.
RoundMul(num, n) == (2 * num * n + RandDen) \div (2 * RandDen)

\* Math.floor(r * n) for r = num / RandDen in [0, 1).
FloorMul(num, n) == (num * n) \div RandDen

\* The values Math.random() returns during one call of generateShortCode
\* (numerators over RandDen); the entropy source is bounded to two streams.
Seeds == { <<0, 0, 0, 0, 0, 0, 0, 0>>,
           <<999, 500, 250, 0, 750, 125, 875, 375>> }

RECURSIVE GenLoop(_, _, _)
GenLoop(seed, i, result) ==
    IF i < CodeLength
    THEN GenLoop(seed, i + 1,
                 result \o charAt(chars, FloorMul(seed[i + 1], Len(chars))))
    ELSE result

generateShortCode(seed) == GenLoop(seed, 0, <<>>)


\* Custom aliases the clients send: a short one, one equal to a code the
\* generator can produce, and one longer than the short_code column.
AliasMy == <<"m", "y">>
AliasClash == generateShortCode(<<0, 0, 0, 0, 0, 0, 0, 0>>)
AliasLong == [i \in 1..(ShortCodeMax + 1) |-> "x"]
\* An alias with a character no path segment can hold.
AliasBad == <<"a", "/">>
NoAlias == <<>>

\* Short codes the clients ask to resolve, and that are deactivated.
Codes == {AliasClash, AliasMy}

\* ------------------------------------------------------------------- URLs

NoUrl == [protocol |-> "", host |-> ""]
UrlA == [protocol |-> "https", host |-> "a.example"]
UrlB == [protocol |-> "http", host |-> "b.example"]
UrlBad == [protocol |-> "ftp", host |-> "c.example"]

\* validator.isURL(url, {protocols: ['http', 'https'], require_protocol: true})
validateUrl(url) == url.protocol \in {"http", "https"} /\ url.host # ""

\* ------------------------------------------------------------------ dates
\* A value that is a Date, the ISO string JSON.stringify makes of a Date, or
\* null; ms is the instant in milliseconds.

NullDate == [tag |-> "null", ms |-> 0]
DateOf(t) == [tag |-> "date", ms |-> t]
\* JavaScript truthiness of such a value.
Truthy(v) == v.tag # "null"
\* new Date(v).getTime() for a Date or an ISO string.
NewDate(v) == v.ms
\* Date.prototype.toJSON under JSON.stringify; JSON.parse leaves the string.
ToJson(v) == IF v.tag = "date" THEN [tag |-> "iso", ms |-> v.ms] ELSE v

\* ------------------------------------------------------------------- rows

NullRow == [id |-> 0, original_url |-> NoUrl, short_code |-> <<>>,
            custom_alias |-> <<>>, created_at |-> NullDate,
            expires_at |-> NullDate, is_active |-> FALSE, click_count |-> 0]

\* JSON.stringify(row): the Dates of the row become ISO strings.
JSONstringify(row) ==
    [row EXCEPT !.created_at = ToJson(@), !.expires_at = ToJson(@)]
\* JSON.parse(text): the ISO strings stay strings.
JSONparse(text) == text

\* ------------------------------------------------------------------ state

VARIABLES
    urls,       \* table urls: the set of its rows
    nextId,     \* urls_id_seq: the next SERIAL value
    analytics,  \* table analytics: the bag of the url_id of its rows
    cache,      \* Redis: key that was set -> [value, exp (instant of expiry)]
    limiter,    \* shortenUrlLimiter: key -> [hits, window]
    now,        \* the clock, in milliseconds
    req,        \* request slot -> the request's local state
    deactivatedAt   \* history: short code -> the instant it was deactivated

vars == <<urls, nextId, analytics, cache, limiter, now, req, deactivatedAt>>

Keys == {"ip1", "ip2"}

NoResp == [status |-> 0, error |-> "", shortCode |-> <<>>, url |-> NoUrl,
           expiresAt |-> NullDate, createdAt |-> NullDate]

\* A free request slot, and the local state a request starts with.
Idle == [kind |-> "idle", pc |-> "idle"]
Blank == [kind |-> "idle", pc |-> "idle", key |-> "", originalUrl |-> NoUrl,
          customAlias |-> NoAlias, expiresIn |-> 0, shortCode |-> <<>>,
          expiresAt |-> NullDate, urlData |-> NullRow, src |-> "none",
          resp |-> NoResp, log |-> {}]

\* A mutant of CacheKey: the key lacks the short code.
CacheKeyFixed(shortCode) == <<"u", "r", "l", ":">>

\* `url:${shortCode}`
CacheKey(shortCode) == <<"u", "r", "l", ":">> \o shortCode

Init ==
    /\ urls = {}
    /\ nextId = 1
    /\ analytics = EmptyBag
    /\ cache = <<>>
    /\ limiter = [k \in Keys |-> [hits |-> 0, window |-> 0]]
    /\ now = 0
    /\ req = [p \in Procs |-> Idle]
    /\ deactivatedAt = <<>>


\* --------------------------------------------------------------- helpers

\* The instants the clock is observed at: the start, and one at which the
\* cache entries and the one-day records of the start are over.
Instants == {0, DayMs + 1}
\* The instants of the burst workload.
RateInstants == {0, WindowMs - 1, WindowMs}

\* The request slots are interchangeable: a request takes the lowest free one.
FreeSlot(p, slots) ==
    /\ p \in slots
    /\ req[p].kind = "idle"
    /\ \A q \in slots : q < p => req[q].kind # "idle"

Error(status, message) == [NoResp EXCEPT !.status = status, !.error = message]

\* A handler ends: the response is sent and nothing of it stays scheduled.
Respond(r, response) == [r EXCEPT !.pc = "done", !.resp = response]

\* console.error(label, error)
Logged(r, lines) == [r EXCEPT !.log = @ \cup lines]

\* ---------------------------------------------------------- rate limiter
\* express-rate-limit with its memory store: one counter per key, all
\* counters reset at every multiple of windowMs; a request is rejected when
\* the incremented counter exceeds max.

WindowOf(t) == t \div WindowMs

Hits(key) ==
    IF limiter[key].window = WindowOf(now) THEN limiter[key].hits ELSE 0

\* A mutant of OverLimit: the request that reaches max is rejected already.
OverLimitAtMax(current) == current >= RateMax

OverLimit(current) == current > RateMax

\* -------------------------------------------------------------- the store

\* A mutant of SelectByCode: the query also asks for is_active = TRUE.
SelectByCodeActiveOnly(shortCode) ==
    { row \in urls : row.short_code = shortCode /\ row.is_active }

\* 'SELECT id FROM urls WHERE short_code = $1'
SelectByCode(shortCode) == { row \in urls : row.short_code = shortCode }

\* A mutant of SelectActive: the query lacks AND is_active = TRUE.
SelectAnyState(shortCode) == { row \in urls : row.short_code = shortCode }

\* 'SELECT * FROM urls WHERE short_code = $1 AND is_active = TRUE'
SelectActive(shortCode) ==
    { row \in urls : row.short_code = shortCode /\ row.is_active }

\* A mutant of UniqueViolation: the column is declared without UNIQUE.
NoUniqueConstraint(shortCode) == FALSE

\* short_code VARCHAR(20) UNIQUE: the insert violates the constraint.
UniqueViolation(shortCode) == \E row \in urls : row.short_code = shortCode

\* short_code VARCHAR(20), custom_alias VARCHAR(50): value too long.
TooLong(shortCode, customAlias) ==
    Len(shortCode) > ShortCodeMax \/ Len(customAlias) > CustomAliasMax

\* The row INSERT ... RETURNING * makes: id from the sequence, created_at =
\* CURRENT_TIMESTAMP, is_active = TRUE and click_count = 0 by default.
NewRow(id, originalUrl, shortCode, customAlias, expiresAt, t) ==
    [id |-> id, original_url |-> originalUrl, short_code |-> shortCode,
     custom_alias |-> customAlias, created_at |-> DateOf(t),
     expires_at |-> expiresAt, is_active |-> TRUE, click_count |-> 0]

\* A mutant of IncrementClick: the counter is written from the value the
\* handler read (SET click_count = urlData.click_count + 1).
IncrementFromRead(rows, urlData) ==
    { IF row.id = urlData.id
      THEN [row EXCEPT !.click_count = urlData.click_count + 1]
      ELSE row : row \in rows }

\* 'UPDATE urls SET click_count = click_count + 1 WHERE id = $1'
IncrementClick(rows, urlData) ==
    { IF row.id = urlData.id
      THEN [row EXCEPT !.click_count = @ + 1]
      ELSE row : row \in rows }

\* -------------------------------------------------------------- the cache

\* redisClient.get(key): the value, unless the key is unset or its TTL is over.
RedisGet(key) ==
    IF key \in DOMAIN cache /\ now < cache[key].exp
    THEN cache[key].value
    ELSE NullRow

\* A mutant of getCachedUrl: no try/catch, the cache error leaves the helper.
getCachedUrlNoCatch(shortCode, ok) ==
    IF ok
    THEN [threw |-> FALSE, logged |-> {},
          value |-> JSONparse(RedisGet(CacheKey(shortCode)))]
    ELSE [threw |-> TRUE, logged |-> {}, value |-> NullRow]

\* getCachedUrl: the parsed value, null on a miss; a cache error is caught,
\* logged and answered with null, so the helper never throws.
getCachedUrl(shortCode, ok) ==
    IF ok
    THEN [threw |-> FALSE, logged |-> {},
          value |-> JSONparse(RedisGet(CacheKey(shortCode)))]
    ELSE [threw |-> FALSE, logged |-> {"Cache get error"}, value |-> NullRow]

\* A mutant of RedisSetex: the seconds are taken for minutes.
RedisSetexMinutes(key, seconds, value) ==
    [k \in DOMAIN cache \cup {key} |->
        IF k = key
        THEN [value |-> value, exp |-> now + seconds * 60 * 1000]
        ELSE cache[k]]

\* redisClient.setex(key, 3600, value)
RedisSetex(key, seconds, value) ==
    [k \in DOMAIN cache \cup {key} |->
        IF k = key
        THEN [value |-> value, exp |-> now + seconds * 1000]
        ELSE cache[k]]

\* A mutant of setCachedUrl: no try/catch, the cache error leaves the helper.
setCachedUrlNoCatch(shortCode, urlData, ok) ==
    IF ok
    THEN [threw |-> FALSE, logged |-> {},
          cache |-> RedisSetex(CacheKey(shortCode), CacheTtlSec,
                               JSONstringify(urlData))]
    ELSE [threw |-> TRUE, logged |-> {}, cache |-> cache]

\* A mutant of setCachedUrl: the key is built from the record's custom_alias.
setCachedUrlByAlias(shortCode, urlData, ok) ==
    IF ok
    THEN [threw |-> FALSE, logged |-> {},
          cache |-> RedisSetex(CacheKey(urlData.custom_alias), CacheTtlSec,
                               JSONstringify(urlData))]
    ELSE [threw |-> FALSE, logged |-> {"Cache set error"}, cache |-> cache]

\* setCachedUrl: the cache after it; a cache error is caught and logged and
\* leaves the cache as it was, so the helper never throws.
setCachedUrl(shortCode, urlData, ok) ==
    IF ok
    THEN [threw |-> FALSE, logged |-> {},
          cache |-> RedisSetex(CacheKey(shortCode), CacheTtlSec,
                               JSONstringify(urlData))]
    ELSE [threw |-> FALSE, logged |-> {"Cache set error"}, cache |-> cache]

\* ------------------------------------------------------ POST /api/shorten

\* A mutant of ComputeExpiry: the days are converted to seconds, not to
\* milliseconds.
ComputeExpirySeconds(expiresIn, t) ==
    IF expiresIn # 0 THEN DateOf(t + expiresIn * (DayMs \div 1000)) ELSE NullDate

\* expiresAt = new Date(Date.now() + expiresIn * 24 * 60 * 60 * 1000), if
\* expiresIn is truthy.
ComputeExpiry(expiresIn, t) ==
    IF expiresIn # 0 THEN DateOf(t + expiresIn * DayMs) ELSE NullDate

\* catch (error): console.error('Shorten URL error:', error); 500.
ShortenFails(r, cause) ==
    Respond(Logged(r, {"Shorten URL error: " \o cause}),
            Error(500, "Internal server error"))

\* The middleware chain and the synchronous head of the handler:
\* shortenUrlLimiter, authenticateToken, validateUrl, then the first store
\* query is sent.
ShortenArrive(p, slots, key, token, body, hitCap) ==
    /\ FreeSlot(p, slots)
    /\ Hits(key) < hitCap
    /\ LET current == Hits(key) + 1
           r == [Blank EXCEPT !.kind = "shorten", !.key = key,
                             !.originalUrl = body.originalUrl,
                             !.customAlias = body.customAlias,
                             !.expiresIn = body.expiresIn]
       IN
       /\ limiter' = [limiter EXCEPT
                        ![key] = [hits |-> current, window |-> WindowOf(now)]]
       /\ IF OverLimit(current)
          THEN req' = [req EXCEPT ![p] =
                  Respond(r, Error(429, "Too many URL shortening requests"))]
          ELSE IF token = "none"
          THEN req' = [req EXCEPT ![p] = Respond(r, Error(401, ""))]
          ELSE IF token = "bad"
          THEN req' = [req EXCEPT ![p] = Respond(r, Error(403, ""))]
          ELSE IF ~validateUrl(body.originalUrl)
          THEN req' = [req EXCEPT ![p] =
                  Respond(r, Error(400, "Invalid URL format"))]
          ELSE IF body.customAlias # NoAlias
          THEN req' = [req EXCEPT ![p] =
                  [r EXCEPT !.pc = "aliasCheck",
                            !.shortCode = body.customAlias]]
          ELSE \E seed \in Seeds :
                  req' = [req EXCEPT ![p] =
                      [r EXCEPT !.pc = "genCheck",
                                !.shortCode = generateShortCode(seed)]]
    /\ UNCHANGED <<urls, nextId, analytics, cache, now, deactivatedAt>>

\* The alias query runs: taken -> 400; free -> expiresAt is computed and the
\* INSERT is sent.
AliasCheck(p) ==
    /\ req[p].kind = "shorten" /\ req[p].pc = "aliasCheck"
    /\ \E ok \in BOOLEAN :
         LET r == req[p]
         IN
         req' = [req EXCEPT ![p] =
            IF ~ok
            THEN ShortenFails(r, "store")
            ELSE IF SelectByCode(r.customAlias) # {}
            THEN Respond(r, Error(400, "Custom alias already taken"))
            ELSE [r EXCEPT !.pc = "insert",
                           !.expiresAt = ComputeExpiry(r.expiresIn, now)]]
    /\ UNCHANGED <<urls, nextId, analytics, cache, limiter, now, deactivatedAt>>

\* The query of the do/while loop runs: taken -> the next candidate is
\* generated and queried; free -> expiresAt is computed and the INSERT is sent.
GenCheck(p) ==
    /\ req[p].kind = "shorten" /\ req[p].pc = "genCheck"
    /\ \E ok \in BOOLEAN, seed \in Seeds :
         LET r == req[p]
         IN
         req' = [req EXCEPT ![p] =
            IF ~ok
            THEN ShortenFails(r, "store")
            ELSE IF SelectByCode(r.shortCode) # {}
            THEN [r EXCEPT !.shortCode = generateShortCode(seed)]
            ELSE [r EXCEPT !.pc = "insert",
                           !.expiresAt = ComputeExpiry(r.expiresIn, now)]]
    /\ UNCHANGED <<urls, nextId, analytics, cache, limiter, now, deactivatedAt>>

\* The INSERT runs: the store is unreachable, the value is too long for its
\* column or the code is taken -> the catch answers 500; else the row is made
\* and setCachedUrl is sent.
Insert(p) ==
    /\ req[p].kind = "shorten" /\ req[p].pc = "insert"
    /\ \E ok \in BOOLEAN :
         LET r == req[p]
             row == NewRow(nextId, r.originalUrl, r.shortCode, r.customAlias,
                           r.expiresAt, now)
         IN
         IF ~ok
         THEN /\ req' = [req EXCEPT ![p] = ShortenFails(r, "store")]
              /\ UNCHANGED <<urls, nextId>>
         ELSE IF TooLong(r.shortCode, r.customAlias)
         THEN /\ req' = [req EXCEPT ![p] = ShortenFails(r, "value too long")]
              /\ UNCHANGED <<urls, nextId>>
         ELSE IF UniqueViolation(r.shortCode)
         THEN /\ req' = [req EXCEPT ![p] = ShortenFails(r, "unique violation")]
              /\ UNCHANGED <<urls, nextId>>
         ELSE /\ urls' = urls \cup {row}
              /\ nextId' = nextId + 1
              /\ req' = [req EXCEPT ![p] =
                            [r EXCEPT !.pc = "setCache", !.urlData = row]]
    /\ UNCHANGED <<analytics, cache, limiter, now, deactivatedAt>>

\* res.status(201).json({shortUrl, shortCode, originalUrl, expiresAt,
\* createdAt: urlData.created_at})
Created(r) ==
    [NoResp EXCEPT !.status = 201, !.shortCode = r.shortCode,
                   !.url = r.originalUrl, !.expiresAt = ToJson(r.expiresAt),
                   !.createdAt = ToJson(r.urlData.created_at)]

\* A mutant of ShortenSetCache: setCachedUrl is not awaited, the 201 is sent
\* while the cache write is still to come.
ShortenRespondsFirst(p) ==
    /\ req[p].kind = "shorten" /\ req[p].pc = "setCache"
    /\ req' = [req EXCEPT ![p] = Respond(req[p], Created(req[p]))]
    /\ UNCHANGED <<urls, nextId, analytics, cache, limiter, now, deactivatedAt>>

\* setCachedUrl runs, then 201; an error thrown there would reach the catch.
ShortenSetCache(p) ==
    /\ req[p].kind = "shorten" /\ req[p].pc = "setCache"
    /\ \E ok \in BOOLEAN :
         LET set == setCachedUrl(req[p].shortCode, req[p].urlData, ok)
             r == Logged(req[p], set.logged)
         IN
         /\ cache' = set.cache
         /\ req' = [req EXCEPT ![p] =
               IF set.threw
               THEN ShortenFails(r, "cache")
               ELSE Respond(r, Created(r))]
    /\ UNCHANGED <<urls, nextId, analytics, limiter, now, deactivatedAt>>

\* ------------------------------------------------------- GET /:shortCode

\* A mutant of Expired: only a Date object is compared, so the ISO string of
\* a cached record never expires.
ExpiredDateOnly(urlData, t) ==
    urlData.expires_at.tag = "date" /\ t > urlData.expires_at.ms

\* urlData.expires_at && new Date() > new Date(urlData.expires_at)
Expired(urlData, t) ==
    Truthy(urlData.expires_at) /\ t > NewDate(urlData.expires_at)

\* The tail of the handler, from the expiration check on: 410, or the click
\* recording is scheduled with setImmediate and 301 is sent.
Finish(r, urlData) ==
    IF Expired(urlData, now)
    THEN Respond(r, Error(410, "Short URL has expired"))
    ELSE [r EXCEPT !.pc = "clickUpdate",
                   !.resp = [NoResp EXCEPT !.status = 301,
                                           !.url = urlData.original_url]]

\* catch (error): console.error('Redirect error:', error); 500.
RedirectFails(r, cause) ==
    Respond(Logged(r, {"Redirect error: " \o cause}),
            Error(500, "Internal server error"))

\* The handler starts: getCachedUrl is sent.
ResolveArrive(p, slots, shortCode) ==
    /\ FreeSlot(p, slots)
    /\ req' = [req EXCEPT ![p] =
                  [Blank EXCEPT !.kind = "resolve", !.pc = "getCache",
                               !.shortCode = shortCode]]
    /\ UNCHANGED <<urls, nextId, analytics, cache, limiter, now, deactivatedAt>>

\* getCachedUrl runs: on a hit the handler finishes from the cached record;
\* on a miss or a cache error the store query is sent.
GetCache(p) ==
    /\ req[p].kind = "resolve" /\ req[p].pc = "getCache"
    /\ \E ok \in BOOLEAN :
         LET got == getCachedUrl(req[p].shortCode, ok)
             r == Logged(req[p], got.logged)
         IN
         req' = [req EXCEPT ![p] =
            IF got.threw
            THEN RedirectFails(r, "cache")
            ELSE IF got.value # NullRow
            THEN Finish([r EXCEPT !.urlData = got.value, !.src = "cache"],
                        got.value)
            ELSE [r EXCEPT !.pc = "query"]]
    /\ UNCHANGED <<urls, nextId, analytics, cache, limiter, now, deactivatedAt>>

\* The store query runs: no active row -> 404; else setCachedUrl is sent.
Query(p) ==
    /\ req[p].kind = "resolve" /\ req[p].pc = "query"
    /\ \E ok \in BOOLEAN :
         LET r == req[p]
             rows == SelectActive(r.shortCode)
         IN
         req' = [req EXCEPT ![p] =
            IF ~ok
            THEN RedirectFails(r, "store")
            ELSE IF rows = {}
            THEN Respond(r, Error(404, "Short URL not found"))
            ELSE [r EXCEPT !.pc = "setCache", !.src = "store",
                           !.urlData = CHOOSE row \in rows : TRUE]]
    /\ UNCHANGED <<urls, nextId, analytics, cache, limiter, now, deactivatedAt>>

\* setCachedUrl runs (a cache error is logged and swallowed), then the
\* handler finishes from the store's record.
ResolveSetCache(p) ==
    /\ req[p].kind = "resolve" /\ req[p].pc = "setCache"
    /\ \E ok \in BOOLEAN :
         LET set == setCachedUrl(req[p].shortCode, req[p].urlData, ok)
             r == Logged(req[p], set.logged)
         IN
         /\ cache' = set.cache
         /\ req' = [req EXCEPT ![p] =
               IF set.threw
               THEN RedirectFails(r, "cache")
               ELSE Finish(r, r.urlData)]
    /\ UNCHANGED <<urls, nextId, analytics, limiter, now, deactivatedAt>>

\* A mutant of ClickUpdate: the failure of the UPDATE is caught on its own
\* and the INSERT of the event is sent all the same.
ClickUpdateThenInsertAnyway(p) ==
    /\ req[p].kind = "resolve" /\ req[p].pc = "clickUpdate"
    /\ \E ok \in BOOLEAN :
         IF ok
         THEN /\ urls' = IncrementClick(urls, req[p].urlData)
              /\ req' = [req EXCEPT ![p].pc = "clickInsert"]
         ELSE /\ urls' = urls
              /\ req' = [req EXCEPT ![p] =
                    [Logged(req[p], {"Analytics logging error: update"})
                        EXCEPT !.pc = "clickInsert"]]
    /\ UNCHANGED <<nextId, analytics, cache, limiter, now, deactivatedAt>>

\* A mutant of ClickUpdate: the UPDATE is awaited inside the handler's try
\* block, so its failure reaches the handler's catch.
ClickUpdateAwaited(p) ==
    /\ req[p].kind = "resolve" /\ req[p].pc = "clickUpdate"
    /\ \E ok \in BOOLEAN :
         IF ok
         THEN /\ urls' = IncrementClick(urls, req[p].urlData)
              /\ req' = [req EXCEPT ![p].pc = "clickInsert"]
         ELSE /\ urls' = urls
              /\ req' = [req EXCEPT ![p] = RedirectFails(req[p], "store")]
    /\ UNCHANGED <<nextId, analytics, cache, limiter, now, deactivatedAt>>

\* The setImmediate callback: the UPDATE runs; when it fails the catch logs
\* it and the INSERT of the event is never sent.
ClickUpdate(p) ==
    /\ req[p].kind = "resolve" /\ req[p].pc = "clickUpdate"
    /\ \E ok \in BOOLEAN :
         IF ok
         THEN /\ urls' = IncrementClick(urls, req[p].urlData)
              /\ req' = [req EXCEPT ![p].pc = "clickInsert"]
         ELSE /\ urls' = urls
              /\ req' = [req EXCEPT ![p] =
                    [Logged(req[p], {"Analytics logging error: update"})
                        EXCEPT !.pc = "done"]]
    /\ UNCHANGED <<nextId, analytics, cache, limiter, now, deactivatedAt>>

\* The INSERT INTO analytics runs; a failure is logged and swallowed.
ClickInsert(p) ==
    /\ req[p].kind = "resolve" /\ req[p].pc = "clickInsert"
    /\ \E ok \in BOOLEAN :
         IF ok
         THEN /\ analytics' = analytics (+) SetToBag({req[p].urlData.id})
              /\ req' = [req EXCEPT ![p].pc = "done"]
         ELSE /\ analytics' = analytics
              /\ req' = [req EXCEPT ![p] =
                    [Logged(req[p], {"Analytics logging error: insert"})
                        EXCEPT !.pc = "done"]]
    /\ UNCHANGED <<urls, nextId, cache, limiter, now, deactivatedAt>>

\* ------------------------------------------------------- the environment

\* A record is deactivated from outside the server (is_active = FALSE).
Deactivate(shortCode) ==
    /\ \E row \in urls : row.short_code = shortCode /\ row.is_active
    /\ urls' = { IF row.short_code = shortCode
                 THEN [row EXCEPT !.is_active = FALSE]
                 ELSE row : row \in urls }
    /\ deactivatedAt' = [c \in DOMAIN deactivatedAt \cup {shortCode} |->
                            IF c = shortCode THEN now ELSE deactivatedAt[c]]
    /\ UNCHANGED <<nextId, analytics, cache, limiter, now, req>>

\* Time passes.
Tick(instants) ==
    /\ \E t \in instants : t > now /\ now' = t
    /\ UNCHANGED <<urls, nextId, analytics, cache, limiter, req, deactivatedAt>>

\* An answered request is forgotten and its slot reused.
Release(p, slots) ==
    /\ p \in slots
    /\ req[p].pc = "done"
    /\ req' = [req EXCEPT ![p] = Idle]
    /\ UNCHANGED <<urls, nextId, analytics, cache, limiter, now, deactivatedAt>>

\* --------------------------------------------------------- specifications

Body(url, alias, days) ==
    [originalUrl |-> url, customAlias |-> alias, expiresIn |-> days]

\* The requests of the allocation workload: token and body.
Requests ==
    { <<"good", Body(UrlBad, NoAlias, 0)>>,
      <<"good", Body(UrlA, NoAlias, 0)>>,
      <<"good", Body(UrlB, NoAlias, 1)>>,
      <<"good", Body(UrlA, AliasMy, 0)>>,
      <<"good", Body(UrlB, AliasMy, 1)>>,
      <<"good", Body(UrlB, AliasClash, 0)>>,
      <<"good", Body(UrlA, AliasLong, 0)>>,
      <<"good", Body(UrlA, AliasBad, 0)>> }

\* The shorten requests of the redirect workload.
RedirectRequests ==
    { <<"good", Body(UrlA, NoAlias, 0)>>,
      <<"good", Body(UrlB, NoAlias, 1)>>,
      <<"good", Body(UrlA, NoAlias, -1)>>,
      <<"good", Body(UrlB, AliasMy, 1)>> }

ShortenSlots == {1}
ResolveSlots == Procs \ ShortenSlots

\* The redirect workload: one allocation, concurrent resolves of any code,
\* deactivation from outside, and time.
Next ==
    \/ \E p \in Procs, request \in RedirectRequests :
          ShortenArrive(p, ShortenSlots, "ip1", request[1], request[2],
                        RateMax + RateOver)
    \/ \E p \in Procs : AliasCheck(p)
    \/ \E p \in Procs : GenCheck(p)
    \/ \E p \in Procs : Insert(p)
    \/ \E p \in Procs : ShortenSetCache(p)
    \/ \E p \in Procs, shortCode \in Codes :
          ResolveArrive(p, ResolveSlots, shortCode)
    \/ \E p \in Procs : GetCache(p)
    \/ \E p \in Procs : Query(p)
    \/ \E p \in Procs : ResolveSetCache(p)
    \/ \E p \in Procs : ClickUpdate(p)
    \/ \E p \in Procs : ClickInsert(p)
    \/ \E shortCode \in Codes : Deactivate(shortCode)
    \/ Tick(Instants)

Spec == Init /\ [][Next]_vars

\* The allocation workload: concurrent allocations of every kind.
NextAlloc ==
    \/ \E p \in Procs, request \in Requests :
          ShortenArrive(p, Procs, "ip1", request[1], request[2],
                        RateMax + RateOver)
    \/ \E p \in Procs : AliasCheck(p)
    \/ \E p \in Procs : GenCheck(p)
    \/ \E p \in Procs : Insert(p)
    \/ \E p \in Procs : ShortenSetCache(p)
    \/ \E shortCode \in {AliasMy} : Deactivate(shortCode)

SpecAlloc == Init /\ [][NextAlloc]_vars

\* The burst workload of the rate limiter: requests of two keys, one after
\* the other, each slot reused once its request is answered.
RateSlots == 1..RateProcs

RateRequests ==
    { <<"none", Body(UrlA, NoAlias, 0)>>,
      <<"bad", Body(UrlA, NoAlias, 0)>>,
      <<"good", Body(UrlBad, NoAlias, 0)>>,
      <<"good", Body(UrlA, AliasMy, 0)>> }

RateCap(key) == IF key = "ip1" THEN RateMax + RateOver ELSE RateOtherCap

NextRate ==
    \/ \E p \in Procs, key \in Keys, request \in RateRequests :
          ShortenArrive(p, RateSlots, key, request[1], request[2],
                        RateCap(key))
    \/ \E p \in Procs : AliasCheck(p)
    \/ \E p \in Procs : Insert(p)
    \/ \E p \in Procs : ShortenSetCache(p)
    \/ \E p \in Procs : Release(p, RateSlots)
    \/ Tick(RateInstants)

SpecRate == Init /\ [][NextRate]_vars

\* The retry workload: allocations of generated codes, one after the other
\* and concurrently, each slot reused once its request is answered, and time
\* that passes between their steps. Every
\* store query that was sent is answered and every handler whose await has
\* resolved continues.
RetrySlots == {1, 2}

RetryRequests ==
    { <<"good", Body(UrlA, NoAlias, 0)>>,
      <<"good", Body(UrlB, NoAlias, 1)>> }

NextRetry ==
    \/ \E p \in Procs, request \in RetryRequests :
          ShortenArrive(p, RetrySlots, "ip1", request[1], request[2],
                        RetryArrivals)
    \/ \E p \in Procs : GenCheck(p)
    \/ \E p \in Procs : Insert(p)
    \/ \E p \in Procs : ShortenSetCache(p)
    \/ \E p \in Procs : Release(p, RetrySlots)
    \/ Tick(Instants)

SpecRetry ==
    /\ Init
    /\ [][NextRetry]_vars
    /\ \A p \in Procs :
          /\ WF_vars(GenCheck(p))
          /\ WF_vars(Insert(p))
          /\ WF_vars(ShortenSetCache(p))

\* ================================================================= claims

\* The request of slot p went through the limiter, the authentication and the
\* URL validation, and no store call of it failed.
Handled(p) ==
    /\ req[p].kind = "shorten"
    /\ req[p].resp.status \notin {401, 403, 429}
    /\ req[p].resp.error # "Invalid URL format"
    /\ "Shorten URL error: store" \notin req[p].log

\* C1: of two POST /api/shorten requests that carry the same customAlias and
\* are the only ones to allocate that code, starting from a store with no
\* record for it, exactly one responds 201 and the other responds 400
\* "Custom alias already taken", under every interleaving of their queries.
C1_SameAliasOne201One400 ==
    \A p, q \in Procs :
        ( /\ p # q
          /\ Handled(p) /\ Handled(q)
          /\ req[p].pc = "done" /\ req[q].pc = "done"
          /\ req[p].customAlias # NoAlias
          /\ req[p].customAlias = req[q].customAlias
          /\ Len(req[p].customAlias) <= ShortCodeMax
          /\ \A o \in Procs \ {p, q} :
                req[o].kind = "shorten" => req[o].shortCode # req[p].customAlias )
        => \/ /\ req[p].resp.status = 201
              /\ req[q].resp.status = 400
              /\ req[q].resp.error = "Custom alias already taken"
           \/ /\ req[q].resp.status = 201
              /\ req[p].resp.status = 400
              /\ req[p].resp.error = "Custom alias already taken"

\* C2: the store never holds two records with the same short_code, and no two
\* 201 responses carry the same shortCode.
C2_ShortCodesUnique ==
    /\ \A r1, r2 \in urls : r1.short_code = r2.short_code => r1 = r2
    /\ \A p, q \in Procs :
          ( /\ p # q
            /\ req[p].kind = "shorten" /\ req[q].kind = "shorten"
            /\ req[p].resp.status = 201 /\ req[q].resp.status = 201 )
          => req[p].resp.shortCode # req[q].resp.shortCode

\* Three allocations have ended: a generated code and an alias were created,
\* and an insert of a taken code was refused by the constraint.
C2_Witness ==
    \E p, q, o \in Procs :
        /\ req[p].kind = "shorten" /\ req[p].resp.status = 201
        /\ req[p].customAlias = NoAlias
        /\ req[q].kind = "shorten" /\ req[q].resp.status = 201
        /\ req[q].customAlias # NoAlias
        /\ req[o].kind = "shorten" /\ req[o].resp.status = 500
        /\ "Shorten URL error: unique violation" \in req[o].log
        /\ Cardinality(urls) = 2

\* C10: when the alias query of a POST /api/shorten runs and a record with
\* that short_code is in the store (active or inactive), the request ends at
\* once with 400 "Custom alias already taken": no insert, no generated code,
\* the store and the cache unchanged.
C10_TakenAliasFailsAtOnce ==
    [][ \A p \in Procs :
            ( /\ req[p].kind = "shorten" /\ req[p].pc = "aliasCheck"
              /\ req'[p] # req[p]
              /\ "Shorten URL error: store" \notin req'[p].log
              /\ \E row \in urls : row.short_code = req[p].customAlias )
            => /\ req'[p].pc = "done"
               /\ req'[p].resp = Error(400, "Custom alias already taken")
               /\ req'[p].shortCode = req[p].customAlias
               /\ urls' = urls /\ nextId' = nextId /\ cache' = cache ]_vars

\* An alias request was refused with 400 although the record that holds its
\* code is inactive, with no other allocation in flight.
C10_Witness ==
    \E p \in Procs :
        /\ req[p].kind = "shorten"
        /\ req[p].resp.error = "Custom alias already taken"
        /\ \E row \in urls :
              row.short_code = req[p].customAlias /\ ~row.is_active
        /\ \A o \in Procs : req[o].pc \in {"idle", "done"}

\* C9: for one rate-limit key within one 15-minute window, the first 100
\* POST /api/shorten requests are admitted by the limiter and the 101st (and
\* every later one) is rejected with 429 before it reaches the allocation: no
\* store or cache access, no code, no record. Once the window has elapsed the
\* count starts again from zero, and the other keys' counts are left alone.
C9_HundredPerWindow ==
    [][ \A p \in Procs :
            (req[p].kind = "idle" /\ req'[p].kind = "shorten")
            => LET key == req'[p].key
                   counted == IF limiter[key].window = now \div (15 * 60 * 1000)
                              THEN limiter[key].hits
                              ELSE 0
               IN
               /\ limiter'[key].hits = counted + 1
               /\ \A other \in Keys \ {key} : limiter'[other] = limiter[other]
               /\ counted < 100 => req'[p].resp.status # 429
               /\ counted >= 100 =>
                     /\ req'[p].pc = "done"
                     /\ req'[p].resp.status = 429
                     /\ req'[p].shortCode = <<>>
                     /\ req'[p].urlData = NullRow
                     /\ urls' = urls /\ nextId' = nextId /\ cache' = cache ]_vars

\* The 101st request of a key is answered 429 at the end of the window in
\* which an earlier request of the key created a record.
C9_Witness ==
    \E p \in Procs :
        /\ req[p].kind = "shorten" /\ req[p].resp.status = 429
        /\ limiter[req[p].key] = [hits |-> 101, window |-> 0]
        /\ now = WindowMs - 1
        /\ urls # {}

\* -------------------------------------------------------------- redirects

Alphanumeric ==
    { "A", "B", "C", "D", "E", "F", "G", "H", "I", "J", "K", "L", "M", "N", "O",
      "P", "Q", "R", "S", "T", "U", "V", "W", "X", "Y", "Z", "a", "b", "c", "d",
      "e", "f", "g", "h", "i", "j", "k", "l", "m", "n", "o", "p", "q", "r", "s",
      "t", "u", "v", "w", "x", "y", "z", "0", "1", "2", "3", "4", "5", "6", "7",
      "8", "9" }

\* Every POST /api/shorten without alias that responded 201 returned a code
\* of length 7 over the 62 alphanumeric characters.
GeneratedCodeShape ==
    \A p \in Procs :
        ( /\ req[p].kind = "shorten" /\ req[p].resp.status = 201
          /\ req[p].customAlias = NoAlias )
        => /\ Len(req[p].resp.shortCode) = 7
           /\ Cardinality(Alphanumeric) = 62
           /\ \A i \in 1..Len(req[p].resp.shortCode) :
                 req[p].resp.shortCode[i] \in Alphanumeric

\* In this step the GET of slot q sends its response.
Responds(q) ==
    /\ req[q].kind = "resolve"
    /\ req[q].pc \in {"getCache", "query", "setCache"}
    /\ req'[q].pc \in {"done", "clickUpdate"}

\* In this step the GET of slot q sends its response for the code that the
\* POST of slot p, without alias, was answered 201 for; the GET comes at once:
\* the clock still shows the time of creation, the record was not deactivated
\* and the store did not fail.
ResolvesAtOnce(p, q) ==
    /\ req[p].kind = "shorten" /\ req[p].pc = "done"
    /\ req[p].resp.status = 201
    /\ req[p].customAlias = NoAlias
    /\ Responds(q)
    /\ req[q].shortCode = req[p].resp.shortCode
    /\ now = req[p].resp.createdAt.ms
    /\ \E row \in urls : row.short_code = req[q].shortCode /\ row.is_active
    /\ "Redirect error: store" \notin req'[q].log

\* C3, as claimed: for every valid URL submitted to POST /api/shorten without
\* a custom alias that responds 201, the returned shortCode has length 7 over
\* the 62-character alphanumeric alphabet, and a GET /:shortCode issued
\* immediately afterwards responds 301 with exactly the submitted originalUrl.
C3_Claimed ==
    [][ /\ GeneratedCodeShape'
        /\ \A p, q \in Procs :
              ResolvesAtOnce(p, q)
              => /\ req'[q].resp.status = 301
                 /\ req'[q].resp.url = req[p].originalUrl ]_vars

\* C3, amended: the code returned with 201 has length 7 over the 62
\* alphanumeric characters, and the GET issued immediately afterwards
\* responds 301 with exactly the submitted originalUrl when the expiresAt of
\* the 201 body is null or not earlier than the time of the GET; when it is
\* earlier (a negative expiresIn) the GET responds 410.
C3_RoundTripUnlessExpired ==
    [][ /\ GeneratedCodeShape'
        /\ \A p, q \in Procs :
              ResolvesAtOnce(p, q)
              => IF \/ req[p].resp.expiresAt.tag = "null"
                    \/ now <= req[p].resp.expiresAt.ms
                 THEN /\ req'[q].resp.status = 301
                      /\ req'[q].resp.url = req[p].originalUrl
                 ELSE req'[q].resp.status = 410 ]_vars

\* A generated code was returned with 201 and a GET of it, at the time of
\* creation, was redirected to the submitted URL.
C3_Witness ==
    \E p, q \in Procs :
        /\ req[p].kind = "shorten" /\ req[p].resp.status = 201
        /\ req[p].customAlias = NoAlias
        /\ req[q].kind = "resolve" /\ req[q].resp.status = 301
        /\ req[q].shortCode = req[p].resp.shortCode
        /\ req[q].resp.url = req[p].originalUrl
        /\ now = req[p].resp.createdAt.ms

\* The click recording of the GET of slot q incremented the counter.
Counted(q) ==
    /\ req[q].kind = "resolve"
    /\ req[q].resp.status = 301
    /\ \/ req[q].pc = "clickInsert"
       \/ /\ req[q].pc = "done"
          /\ "Analytics logging error: update" \notin req[q].log

\* C4: the stored click_count of a record is exactly the number of GET
\* /:shortCode requests that responded 301 for it and whose click recording
\* ran its update without store failure, under every interleaving and
\* whatever click_count the handlers read from the cache.
C4_NoLostIncrement ==
    \A row \in urls :
        row.click_count =
            Cardinality({ q \in Procs : Counted(q) /\ req[q].urlData.id = row.id })

\* Two GETs of one code were redirected, one of them from the cache, both
\* read click_count 0, both recordings ended, and the record counts 2.
C4_Witness ==
    \E q1, q2 \in Procs :
        /\ q1 # q2
        /\ req[q1].kind = "resolve" /\ req[q2].kind = "resolve"
        /\ req[q1].pc = "done" /\ req[q2].pc = "done"
        /\ req[q1].resp.status = 301 /\ req[q2].resp.status = 301
        /\ req[q1].src = "cache"
        /\ req[q1].urlData.click_count = 0 /\ req[q2].urlData.click_count = 0
        /\ \E row \in urls :
              /\ row.id = req[q1].urlData.id /\ row.id = req[q2].urlData.id
              /\ row.click_count = 2

\* C5: resolving a short code whose record has expires_at earlier than the
\* current time responds 410, both when the record is served from the cache
\* and when it is served from the store, and deletes or alters nothing: the
\* record stays in the store as it is and in the cache, no click is counted,
\* no event appended and no click recording scheduled.
C5_ExpiredIs410 ==
    [][ \A q \in Procs :
            ( /\ req[q].kind = "resolve"
              /\ req[q].pc \in {"getCache", "setCache"}
              /\ req'[q].pc \in {"done", "clickUpdate"}
              /\ \E row \in urls :
                    /\ row.short_code = req[q].shortCode
                    /\ row.expires_at.tag # "null"
                    /\ row.expires_at.ms < now )
            => /\ req'[q].src \in {"cache", "store"}
               /\ req'[q].resp = Error(410, "Short URL has expired")
               /\ req'[q].pc = "done"
               /\ urls' = urls
               /\ analytics' = analytics
               /\ DOMAIN cache \subseteq DOMAIN cache'
               /\ \A k \in DOMAIN cache :
                     \/ cache'[k] = cache[k]
                     \/ /\ req[q].pc = "setCache"
                        /\ cache'[k].value = JSONstringify(req[q].urlData) ]_vars

\* Two GETs of an expired record were answered 410, one from the store and
\* one from the cache; the record is in the store, unclicked, and in the cache.
C5_Witness ==
    \E q1, q2 \in Procs :
        /\ req[q1].kind = "resolve" /\ req[q2].kind = "resolve"
        /\ req[q1].shortCode = req[q2].shortCode
        /\ req[q1].resp.status = 410 /\ req[q1].src = "store"
        /\ req[q2].resp.status = 410 /\ req[q2].src = "cache"
        /\ \E row \in urls :
              /\ row.short_code = req[q1].shortCode
              /\ row.click_count = 0
              /\ RedisGet(CacheKey(row.short_code)) = JSONstringify(row)
        /\ analytics = EmptyBag

\* C6: resolving a short code that has no record in the store responds 404
\* and writes nothing to the cache; every redirect goes to the original_url
\* of the store's record of that code, so a resolve served by a store query
\* on a cache miss and the next one served from the cache return the
\* identical originalUrl.
C6_MissThenHit ==
    [][ /\ \A q \in Procs :
              ( /\ req[q].kind = "resolve" /\ req[q].pc = "query"
                /\ req'[q] # req[q]
                /\ "Redirect error: store" \notin req'[q].log
                /\ ~ \E row \in urls : row.short_code = req[q].shortCode )
              => /\ req'[q].pc = "done"
                 /\ req'[q].resp = Error(404, "Short URL not found")
                 /\ cache' = cache
                 /\ CacheKey(req[q].shortCode) \notin DOMAIN cache
        /\ \A q \in Procs :
              (req'[q].kind = "resolve" /\ req'[q].resp.status = 301)
              => \E row \in urls' :
                    /\ row.short_code = req'[q].shortCode
                    /\ row.original_url = req'[q].resp.url
        /\ \A q1, q2 \in Procs :
              ( /\ req'[q1].kind = "resolve" /\ req'[q2].kind = "resolve"
                /\ req'[q1].shortCode = req'[q2].shortCode
                /\ req'[q1].resp.status = 301 /\ req'[q2].resp.status = 301
                /\ req'[q1].src = "store" /\ req'[q2].src = "cache" )
              => req'[q1].resp.url = req'[q2].resp.url ]_vars

\* A GET was served by the store query and wrote the cache, and a GET of the
\* same code was then served from the cache with the same URL.
C6_Witness ==
    \E q1, q2 \in Procs :
        /\ req[q1].kind = "resolve" /\ req[q2].kind = "resolve"
        /\ req[q1].shortCode = req[q2].shortCode
        /\ req[q1].resp.status = 301 /\ req[q1].src = "store"
        /\ "Cache set error" \notin req[q1].log
        /\ req[q2].resp.status = 301 /\ req[q2].src = "cache"
        /\ req[q2].urlData.created_at.tag = "iso"
        /\ req[q1].resp.url = req[q2].resp.url
        /\ req[q1].resp.url # NoUrl

\* The log lines of a store failure that the boundary answers with 500.
StoreCauses ==
    { "Shorten URL error: store", "Shorten URL error: value too long",
      "Shorten URL error: unique violation", "Redirect error: store" }

\* C7: under every pattern of cache get and cache set failures, POST
\* /api/shorten and GET /:shortCode respond as they would from the store
\* alone: a failed cache read continues with the store query like a miss, a
\* failed cache write in a GET is followed by the response made of the row
\* the store returned (410 if expired, else 301 to its original_url), a
\* failed cache write in a POST by the 201 of the inserted row; a response
\* 500 always has a store failure behind it, never a cache failure.
C7_CacheFailuresInvisible ==
    [][ /\ \A p \in Procs :
              ( /\ req[p].kind = "resolve" /\ req[p].pc = "getCache"
                /\ "Cache get error" \in req'[p].log )
              => req'[p] = [req[p] EXCEPT !.pc = "query",
                                          !.log = @ \cup {"Cache get error"}]
        /\ \A p \in Procs :
              ( /\ req[p].kind = "resolve" /\ req[p].pc = "setCache"
                /\ "Cache set error" \in req'[p].log )
              => /\ \E row \in urls : row.id = req[p].urlData.id
                 /\ IF /\ req[p].urlData.expires_at.tag # "null"
                       /\ now > req[p].urlData.expires_at.ms
                    THEN req'[p].resp.status = 410
                    ELSE /\ req'[p].resp.status = 301
                         /\ req'[p].resp.url = req[p].urlData.original_url
        /\ \A p \in Procs :
              ( /\ req[p].kind = "shorten" /\ req[p].pc = "setCache"
                /\ "Cache set error" \in req'[p].log )
              => /\ req'[p].resp.status = 201
                 /\ req'[p].resp.shortCode = req[p].urlData.short_code
                 /\ req'[p].resp.url = req[p].urlData.original_url
                 /\ \E row \in urls : row.id = req[p].urlData.id
        /\ \A p \in Procs :
              (req'[p].kind # "idle" /\ req'[p].resp.status = 500)
              => req'[p].log \cap StoreCauses # {} ]_vars

\* The cache is unavailable throughout: a POST was answered 201 and a GET of
\* its code 301 to the submitted URL, each after its cache calls failed.
C7_Witness ==
    \E p, q \in Procs :
        /\ req[p].kind = "shorten" /\ req[p].resp.status = 201
        /\ "Cache set error" \in req[p].log
        /\ req[q].kind = "resolve" /\ req[q].resp.status = 301
        /\ req[q].shortCode = req[p].resp.shortCode
        /\ req[q].resp.url = req[p].originalUrl
        /\ {"Cache get error", "Cache set error"} \subseteq req[q].log
        /\ cache = <<>>

\* C8, as claimed: an inactive record is treated as not-found for redirects:
\* in every reachable state, a GET /:shortCode for a code whose store record
\* has is_active = FALSE responds 404 and never 301.
C8_Claimed ==
    [][ \A q \in Procs :
            ( /\ Responds(q)
              /\ \E row \in urls :
                    row.short_code = req[q].shortCode /\ ~row.is_active )
            => req'[q].resp.status # 301 ]_vars

\* C8, amended: a GET /:shortCode whose store query runs while the record of
\* the code has is_active = FALSE responds 404 and never 301, and writes
\* nothing to the cache.
C8_InactiveQueryIs404 ==
    [][ \A q \in Procs :
            ( /\ req[q].kind = "resolve" /\ req[q].pc = "query"
              /\ req'[q] # req[q]
              /\ "Redirect error: store" \notin req'[q].log
              /\ \E row \in urls :
                    row.short_code = req[q].shortCode /\ ~row.is_active )
            => /\ req'[q].pc = "done"
               /\ req'[q].resp = Error(404, "Short URL not found")
               /\ cache' = cache ]_vars

\* The record is inactive: a GET that queried the store was answered 404,
\* and a GET served from the cache entry of the record was answered 301.
C8_Witness ==
    \E q1, q2 \in Procs :
        /\ req[q1].kind = "resolve" /\ req[q2].kind = "resolve"
        /\ req[q1].shortCode = req[q2].shortCode
        /\ req[q1].resp.status = 404
        /\ req[q2].resp.status = 301 /\ req[q2].src = "cache"
        /\ \E row \in urls :
              /\ row.short_code = req[q1].shortCode
              /\ ~row.is_active
              /\ row.click_count = 0

\* ------------------------------------------------------------- allocation

\* The alias policy: 1 to 50 characters, each a letter, a digit, a hyphen or
\* an underscore.
AliasPolicy(alias) ==
    /\ Len(alias) >= 1 /\ Len(alias) <= 50
    /\ \A i \in 1..Len(alias) : alias[i] \in Alphanumeric \cup {"-", "_"}

\* C11: a caller-supplied alias is checked against the alias policy before
\* any insert: an alias of 1 to 50 characters in the allowed charset that no
\* other request allocates yields 201 with shortCode equal to the alias, and
\* an alias violating the policy is rejected with 400 and no record with
\* that code is inserted.
C11_AliasPolicyEnforced ==
    \A p \in Procs :
        ( /\ Handled(p)
          /\ req[p].pc = "done"
          /\ req[p].customAlias # NoAlias
          /\ \A o \in Procs \ {p} :
                req[o].kind = "shorten" => req[o].shortCode # req[p].customAlias )
        => IF AliasPolicy(req[p].customAlias)
           THEN /\ req[p].resp.status = 201
                /\ req[p].resp.shortCode = req[p].customAlias
           ELSE /\ req[p].resp.status = 400
                /\ ~ \E row \in urls : row.short_code = req[p].customAlias

\* Every code the generator can produce is the short_code of a record.
AllCandidatesTaken ==
    \A seed \in Seeds :
        \E row \in urls : row.short_code = generateShortCode(seed)

\* C12: every POST /api/shorten without a custom alias eventually responds:
\* when every candidate the generator can produce is already taken, the
\* request that is querying a candidate ends with a response (allocation
\* exhausted) instead of generating and querying candidates forever.
C12_GenerationEnds ==
    \A p \in Procs :
        ( /\ req[p].kind = "shorten" /\ req[p].pc = "genCheck"
          /\ AllCandidatesTaken )
        ~> (req[p].pc = "done")

\* ---------------------------------------------------------- click record

\* C13: for every GET /:shortCode that resolves successfully, the 301
\* response is dispatched before any click-recording store operation begins
\* (the step that sends it leaves the store untouched, and every step of the
\* click recording finds it sent), and the response is 301 with the original
\* URL whether or not the counter increment or the event append later fails.
C13_RedirectBeforeRecording ==
    [][ \A q \in Procs :
            /\ (Responds(q) /\ req'[q].resp.status = 301)
               => /\ req'[q].pc = "clickUpdate"
                  /\ urls' = urls /\ analytics' = analytics
                  /\ req'[q].resp.url = req'[q].urlData.original_url
            /\ ( /\ req[q].kind = "resolve"
                 /\ req[q].pc \in {"clickUpdate", "clickInsert"}
                 /\ req'[q] # req[q] )
               => /\ req[q].resp.status = 301
                  /\ req'[q].resp = req[q].resp ]_vars

\* Two GETs were redirected with 301 to the record's URL; the counter
\* increment of one and the event append of the other failed afterwards.
C13_Witness ==
    \E q1, q2 \in Procs :
        /\ req[q1].kind = "resolve" /\ req[q2].kind = "resolve"
        /\ req[q1].pc = "done" /\ req[q2].pc = "done"
        /\ req[q1].resp.status = 301 /\ req[q2].resp.status = 301
        /\ "Analytics logging error: update" \in req[q1].log
        /\ "Analytics logging error: insert" \in req[q2].log
        /\ \E row \in urls :
              /\ row.original_url = req[q1].resp.url
              /\ row.original_url = req[q2].resp.url
              /\ row.click_count = 1
        /\ analytics = EmptyBag

\* -------------------------------------------------------------- expiry

\* C14: for every POST /api/shorten with expiresIn = d days that responds
\* 201, expiresAt equals createdAt plus d x 24 hours, less only the time the
\* INSERT itself took: expiresAt is computed from the clock when the last
\* candidate query is answered, however many candidate queries and however
\* much time preceded it, createdAt is the clock when the INSERT runs, and
\* the 201 body carries both as stored.
C14_ExpiresAtIsCreatedAtPlusDays ==
    [][ \A p \in Procs :
            /\ ( /\ req[p].kind = "shorten"
                 /\ req[p].pc \in {"genCheck", "aliasCheck"}
                 /\ req'[p].pc = "insert"
                 /\ req[p].expiresIn # 0 )
               => /\ req'[p].expiresAt.tag = "date"
                  /\ req'[p].expiresAt.ms =
                        now + req[p].expiresIn * 24 * 60 * 60 * 1000
            /\ ( /\ req[p].kind = "shorten"
                 /\ req[p].pc = "insert" /\ req'[p].pc = "setCache"
                 /\ req[p].expiresIn # 0 )
               => /\ req'[p].urlData \in urls'
                  /\ req'[p].urlData.created_at.ms = now
                  /\ req'[p].urlData.expires_at = req[p].expiresAt
            /\ ( /\ req'[p].kind = "shorten"
                 /\ req'[p].resp.status = 201
                 /\ req'[p].expiresIn # 0 )
               => /\ req'[p].resp.expiresAt.ms = req'[p].urlData.expires_at.ms
                  /\ req'[p].resp.createdAt.ms = req'[p].urlData.created_at.ms
                  /\ req'[p].resp.expiresAt.ms <=
                        req'[p].resp.createdAt.ms
                           + req'[p].expiresIn * 24 * 60 * 60 * 1000 ]_vars

\* A request with expiresIn = 1 was answered 201 after time had passed, with
\* expiresAt exactly one day after createdAt, while every candidate is taken.
C14_Witness ==
    \E p \in Procs :
        /\ req[p].kind = "shorten" /\ req[p].resp.status = 201
        /\ req[p].expiresIn = 1
        /\ req[p].resp.createdAt.ms = DayMs + 1
        /\ req[p].resp.expiresAt.ms = req[p].resp.createdAt.ms + DayMs
        /\ AllCandidatesTaken

\* C15: when no alias is given and the insert fails on the uniqueness
\* constraint (another request inserted the same generated code between this
\* request's candidate query and its insert), the allocation generates a new
\* candidate and retries: with the store reachable, a request without alias
\* never ends with an error response because of a collision.
C15_CollisionIsRetried ==
    \A p \in Procs :
        ( /\ Handled(p)
          /\ req[p].pc = "done"
          /\ req[p].customAlias = NoAlias )
        => req[p].resp.status = 201

\* --------------------------------------------------------- write-through

\* C16: whenever POST /api/shorten responds 201 and the cache write did not
\* fail, the cache holds, at the moment the response is sent, an entry under
\* the new short code that equals the inserted record and expires one hour
\* later; a GET /:shortCode of that code whose cache read runs after the 201,
\* within the hour and without cache failure, is served from the cache and
\* sends no store query.
C16_WriteThroughBefore201 ==
    [][ /\ \A p \in Procs :
              ( /\ req[p].kind = "shorten" /\ req[p].pc # "done"
                /\ req'[p].resp.status = 201
                /\ "Cache set error" \notin req'[p].log )
              => LET key == <<"u", "r", "l", ":">> \o req'[p].resp.shortCode
                 IN
                 /\ key \in DOMAIN cache'
                 /\ cache'[key].exp = now + 3600 * 1000
                 /\ cache'[key].value.id = req[p].urlData.id
                 /\ cache'[key].value.short_code = req'[p].resp.shortCode
                 /\ cache'[key].value.original_url = req[p].originalUrl
                 /\ cache'[key].value.expires_at.ms = req[p].expiresAt.ms
                 /\ \E row \in urls :
                       /\ row.id = cache'[key].value.id
                       /\ row.short_code = cache'[key].value.short_code
                       /\ row.original_url = cache'[key].value.original_url
        /\ \A p, q \in Procs :
              ( /\ req[p].kind = "shorten" /\ req[p].pc = "done"
                /\ req[p].resp.status = 201
                /\ "Cache set error" \notin req[p].log
                /\ req[q].kind = "resolve" /\ req[q].pc = "getCache"
                /\ req[q].shortCode = req[p].resp.shortCode
                /\ req'[q] # req[q]
                /\ "Cache get error" \notin req'[q].log
                /\ now < req[p].resp.createdAt.ms + 3600 * 1000 )
              => /\ req'[q].src = "cache"
                 /\ req'[q].pc # "query"
                 /\ req'[q].urlData.id = req[p].urlData.id ]_vars

\* A POST was answered 201, its entry is in the cache with one hour to live
\* from the creation, and a GET of the code was served from the cache.
C16_Witness ==
    \E p, q \in Procs :
        /\ req[p].kind = "shorten" /\ req[p].resp.status = 201
        /\ req[q].kind = "resolve" /\ req[q].src = "cache"
        /\ req[q].shortCode = req[p].resp.shortCode
        /\ req[q].resp.status = 301
        /\ {"Cache get error", "Cache set error"} \cap req[q].log = {}
        /\ CacheKey(req[p].shortCode) \in DOMAIN cache
        /\ cache[CacheKey(req[p].shortCode)].exp
              = req[p].resp.createdAt.ms + CacheTtlSec * 1000
        /\ cache[CacheKey(req[p].shortCode)].value
              = JSONstringify(req[p].urlData)

\* ------------------------------------------------------- click recorder

\* The click recording of the GET of slot q has ended and its INSERT INTO
\* analytics, if it was sent, did not fail.
AppendNotFailed(q) ==
    /\ req[q].kind = "resolve"
    /\ req[q].resp.status = 301
    /\ req[q].pc = "done"
    /\ "Analytics logging error: insert" \notin req[q].log

\* C17: the two writes of the click recording are independent: every ended
\* recording whose event append did not fail has appended its event, also
\* when its click_count increment failed, and every recording whose increment
\* succeeded is counted in click_count, also when its event append failed.
C17_WritesIndependent ==
    \A row \in urls :
        /\ CopiesIn(row.id, analytics) =
              Cardinality({ q \in Procs :
                              AppendNotFailed(q) /\ req[q].urlData.id = row.id })
        /\ row.click_count =
              Cardinality({ q \in Procs :
                              Counted(q) /\ req[q].urlData.id = row.id })

\* -------------------------------------------------------------- staleness

\* C18, as claimed: after a record is deactivated in the store, GET
\* /:shortCode for its code responds 301 for at most one cache TTL (3600 s)
\* after the deactivation, also when resolves in flight read the store before
\* the deactivation and write the cache after it.
C18_Claimed ==
    [][ \A q \in Procs :
            ( /\ Responds(q)
              /\ req'[q].resp.status = 301
              /\ req[q].shortCode \in DOMAIN deactivatedAt )
            => now <= deactivatedAt[req[q].shortCode] + 3600 * 1000 ]_vars

\* C18, amended: staleness is bounded by the TTL counted from the last cache
\* write. A cache read never writes the cache; every cache write sets the
\* entry to expire 3600 s after the write and is made by a request that
\* holds the record as it read it while active, once; a GET answered 301
\* after the deactivation either read the store itself before the
\* deactivation or is served from an entry that has not expired; a store
\* query after the deactivation is answered 404 and writes nothing.
C18_StaleUntilLastWriteExpires ==
    [][ /\ \A k \in DOMAIN cache' : cache'[k].exp <= now + 3600 * 1000
        /\ \A q \in Procs :
              /\ (req[q].kind = "resolve" /\ req[q].pc = "getCache")
                 => (req'[q] # req[q] => cache' = cache)
              /\ ( /\ req[q].kind # "idle" /\ req[q].pc = "setCache"
                   /\ req'[q] # req[q]
                   /\ cache' # cache )
                 => LET key == <<"u", "r", "l", ":">> \o req[q].shortCode
                    IN
                    /\ cache'[key].exp = now + 3600 * 1000
                    /\ req[q].urlData.is_active
                    /\ req'[q].pc # "setCache"
                    /\ \A k \in DOMAIN cache : k # key => cache'[k] = cache[k]
              /\ ( /\ Responds(q)
                   /\ req'[q].resp.status = 301
                   /\ req[q].shortCode \in DOMAIN deactivatedAt )
                 => \/ req'[q].src = "store" /\ req[q].pc = "setCache"
                    \/ /\ req'[q].src = "cache"
                       /\ now < cache[<<"u", "r", "l", ":">> \o req[q].shortCode].exp
              /\ ( /\ req[q].kind = "resolve" /\ req[q].pc = "query"
                   /\ req'[q] # req[q]
                   /\ req[q].shortCode \in DOMAIN deactivatedAt )
                 => /\ req'[q].pc = "done"
                    /\ req'[q].resp.status \in {404, 500}
                    /\ cache' = cache ]_vars

\* The record was deactivated more than an hour ago: a GET that had read the
\* store before the deactivation wrote the cache afterwards and was answered
\* 301, and a later GET was answered 301 from that entry.
C18_Witness ==
    \E q1, q2 \in Procs :
        /\ req[q1].kind = "resolve" /\ req[q2].kind = "resolve"
        /\ req[q1].shortCode = req[q2].shortCode
        /\ req[q1].shortCode \in DOMAIN deactivatedAt
        /\ now > deactivatedAt[req[q1].shortCode] + CacheTtlSec * 1000
        /\ req[q1].resp.status = 301 /\ req[q1].src = "store"
        /\ req[q2].resp.status = 301 /\ req[q2].src = "cache"
        /\ RedisGet(CacheKey(req[q1].shortCode)) # NullRow
        /\ cache[CacheKey(req[q1].shortCode)].exp = now + CacheTtlSec * 1000

\* ------------------------------------------------------------ invariants

\* C19: in every reachable state the stored click_count of every record is
\* at least the number of analytics events that reference the record: the
\* event of a click is appended only after the increment of that click has
\* succeeded.
C19_CountCoversEvents ==
    \A row \in urls : row.click_count >= CopiesIn(row.id, analytics)

\* Two clicks of a record were counted and one event was appended: the
\* append of the other failed.
C19_Witness ==
    \E row \in urls :
        /\ row.click_count = 2
        /\ CopiesIn(row.id, analytics) = 1
        /\ \E q \in Procs :
              /\ req[q].kind = "resolve" /\ req[q].pc = "done"
              /\ "Analytics logging error: insert" \in req[q].log
        /\ \A q \in Procs : req[q].pc \in {"idle", "done"}

\* C20: in every reachable state, under every interleaving of shorten and
\* resolve requests, each cache entry is under the key url:<code> of a record
\* that was inserted in the store with that short_code, and its id,
\* original_url, creation and expiry equal those of the store's record of
\* the code; only click_count and is_active may be stale.
C20_CacheEntriesMirrorStore ==
    \A k \in DOMAIN cache :
        \E row \in urls :
            /\ k = <<"u", "r", "l", ":">> \o row.short_code
            /\ cache[k].value.short_code = row.short_code
            /\ cache[k].value.id = row.id
            /\ cache[k].value.original_url = row.original_url
            /\ cache[k].value.custom_alias = row.custom_alias
            /\ cache[k].value.created_at.ms = row.created_at.ms
            /\ cache[k].value.expires_at.ms = row.expires_at.ms
            /\ cache[k].value.expires_at.tag = "null"
                  <=> row.expires_at.tag = "null"

\* A live cache entry, written by a resolve, whose click_count and is_active
\* are stale while its id and original_url are those of the store's record.
C20_Witness ==
    \E row \in urls, q \in Procs :
        /\ CacheKey(row.short_code) \in DOMAIN cache
        /\ RedisGet(CacheKey(row.short_code)) # NullRow
        /\ RedisGet(CacheKey(row.short_code)).is_active /\ ~row.is_active
        /\ RedisGet(CacheKey(row.short_code)).click_count = 0
        /\ row.click_count = 2
        /\ RedisGet(CacheKey(row.short_code)).id = row.id
        /\ req[q].kind = "resolve" /\ req[q].src = "store"
        /\ req[q].resp.status = 301
        /\ "Cache set error" \notin req[q].log

\* ------------------------------------------------------ failed allocations

\* C21: a POST /api/shorten that responds with anything other than 201
\* (429, 401, 403, invalid URL 400, alias taken 400, store failure 500) has
\* written nothing: every step of a shorten request that changes the urls
\* table, the analytics table or the cache is a step of a request that ends
\* with 201; once its row is inserted the request can only end with 201; the
\* step that sends another response changes none of the three, and the
\* request it ends holds no row of an INSERT.
C21_Non201LeavesStoreAndCache ==
    [][ \A p \in Procs :
            (req'[p] # req[p] /\ req'[p].kind = "shorten")
            => /\ (urls' # urls \/ analytics' # analytics \/ cache' # cache)
                  => \/ req'[p].pc = "setCache"
                     \/ /\ req'[p].pc = "done"
                        /\ req'[p].resp.status = 201
               /\ (req[p].kind = "shorten" /\ req[p].pc = "setCache")
                  => /\ req'[p].pc = "done"
                     /\ req'[p].resp.status = 201
               /\ (req'[p].pc = "done" /\ req'[p].resp.status # 201)
                  => /\ urls' = urls
                     /\ analytics' = analytics
                     /\ cache' = cache
                     /\ req'[p].urlData = NullRow ]_vars

\* Three allocations of one alias have ended: one with 201, its row in the
\* store and its entry in the cache; one with 400, the alias being taken; one
\* with 500, its INSERT having failed on the uniqueness constraint; and the
\* store and the cache hold the row and the entry of the first alone.
C21_Witness ==
    \E p, q, r \in Procs :
        /\ req[p].kind = "shorten" /\ req[p].pc = "done"
        /\ req[p].resp.status = 201
        /\ req[q].kind = "shorten" /\ req[q].pc = "done"
        /\ req[q].resp.error = "Custom alias already taken"
        /\ req[r].kind = "shorten" /\ req[r].pc = "done"
        /\ req[r].resp.status = 500
        /\ "Shorten URL error: unique violation" \in req[r].log
        /\ \E row \in urls : urls = {row} /\ row.id = req[p].urlData.id
        /\ DOMAIN cache = {CacheKey(req[p].shortCode)}
        /\ cache[CacheKey(req[p].shortCode)].value
              = JSONstringify(req[p].urlData)
        /\ analytics = EmptyBag

====
